---- MODULE Spec2Model ----
(***************************************************************************)
(* Gym Mats API: the cart handlers of main.py over the document store.     *)
(*                                                                         *)
(* Two specifications share the store and the pure parts of the handlers:  *)
(*   Spec      every handler runs to completion before the next starts;    *)
(*   ConcSpec  two request workers interleave the individual store reads   *)
(*             and writes of seed_product and add_to_cart.                 *)
(***************************************************************************)
EXTENDS Integers, Sequences, FiniteSets

\* ---------------------------------------------------------------- bounds
MaxCalls == 4          \* handler invocations in one behaviour of Spec
MaxWorkerCalls == 3    \* add_to_cart invocations in one behaviour of ConcSpec          \* handler invocations in one behaviour
MaxQty == 2            \* largest requested quantity; requests range over 0..MaxQty

\* ---------------------------------------------------------------- inputs
SeedSlug == "rubber-gym-mat-pro"
CartIds == {"c1", "c2"}
Slugs == {SeedSlug, "no-such-product"}
Skus == {"MAT10-BLK-100", "MAT15-BLK-100", "NO-SUCH-SKU"}
Quantities == 0 .. MaxQty
Procs == {1, 2}
WorkerCartIds == {"c1"}

\* Python's None, and a present value, for the results of find_one / next().
None == <<>>
Some(x) == <<x>>

VARIABLES
    dbUp,        \* database.db is not None (fixed at import time)
    product,     \* db["product"]: the records in natural order
    cart,        \* db["cart"]: the records in natural order
    last,        \* Spec: the last completed request and its response
    log,         \* Spec, history: the AddToCart calls that returned 200, in order
    ncalls,      \* history: handler invocations counted against the bound
    cartWrites,  \* history: write operations issued on db["cart"]
    pc,          \* ConcSpec: each worker's position in its handler
    req,         \* ConcSpec: each worker's payload
    item,        \* ConcSpec: each worker's local `item`
    snap,        \* ConcSpec: each worker's local `cart` (result of find_one)
    status,      \* ConcSpec: each worker's response status
    lastWriter   \* history: the worker that issued the last cart write

vars == <<dbUp, product, cart, last, log, ncalls, cartWrites,
          pc, req, item, snap, status, lastWriter>>
workerVars == <<pc, req, item, snap, status, lastWriter>>

\* ------------------------------------------------------ the seeded product
SeedVariants ==
    << [sku |-> "MAT10-BLK-100", thickness_mm |-> 10, size |-> "1m x 1m",
        color |-> "Black", price |-> 4999, stock |-> 120],
       [sku |-> "MAT15-BLK-100", thickness_mm |-> 15, size |-> "1m x 1m",
        color |-> "Black", price |-> 6499, stock |-> 80],
       [sku |-> "MAT20-GRY-100", thickness_mm |-> 20, size |-> "1m x 1m",
        color |-> "Speckled Grey", price |-> 7999, stock |-> 50] >>

SeedProduct ==
    [title |-> "Premium Rubber Gym Mat",
     slug |-> SeedSlug,
     images |-> <<"/images/mat-1.jpg", "/images/mat-2.jpg", "/images/mat-3.jpg">>,
     variants |-> SeedVariants]

\* ------------------------------------------------------------ store reads
FirstIndex(S) == CHOOSE i \in S : \A j \in S : i <= j

\* FindProduct with the filter dropped: find_one({})
FindProduct_AnySlug(coll, slug) ==
    IF coll = <<>> THEN None ELSE Some(coll[1])

\* db["product"].find_one({"slug": slug})
FindProduct(coll, slug) ==
    LET hits == {i \in DOMAIN coll : coll[i].slug = slug}
    IN  IF hits = {} THEN None ELSE Some(coll[FirstIndex(hits)])

\* next((v for v in product.get("variants", []) if v.get("sku") == sku), None)
FindVariant(prod, sku) ==
    LET hits == {i \in DOMAIN prod.variants : prod.variants[i].sku = sku}
    IN  IF hits = {} THEN None ELSE Some(prod.variants[FirstIndex(hits)])

\* db["cart"].find_one({"cart_id": cart_id})
FindCart(coll, cart_id) ==
    LET hits == {i \in DOMAIN coll : coll[i].cart_id = cart_id}
    IN  IF hits = {} THEN None ELSE Some(coll[FirstIndex(hits)])

\* ----------------------------------------------------------- store writes
\* insert_one: the store gives the new record a fresh _id.
InsertOne(coll, doc) ==
    Append(coll, [_id |-> Len(coll) + 1, cart_id |-> doc.cart_id,
                  items |-> doc.items, currency |-> doc.currency])

\* update_one({"_id": id}, {"$set": doc}): every field of doc replaces the
\* field of the first record whose _id matches; no match, no change.
UpdateOne(coll, id, doc) ==
    LET hits == {i \in DOMAIN coll : coll[i]._id = id}
    IN  IF hits = {} THEN coll
        ELSE [coll EXCEPT ![FirstIndex(hits)] =
                 [_id |-> doc._id, cart_id |-> doc.cart_id,
                  items |-> doc.items, currency |-> doc.currency]]

ApplyWrite(coll, w) ==
    IF w.op = "insert" THEN InsertOne(coll, w.doc) ELSE UpdateOne(coll, w.id, w.doc)

RECURSIVE ApplyWrites(_, _)
ApplyWrites(coll, ws) ==
    IF ws = <<>> THEN coll ELSE ApplyWrites(ApplyWrite(coll, Head(ws)), Tail(ws))

\* --------------------------------------------------- add_to_cart, pure parts
\* f"{variant.get('thickness_mm')}mm": the number followed by the unit.
FormatThickness(n) == <<n, "mm">>

\* (product.get("images") or [{}])[0].get("url")
FirstImageUrl(prod) == IF prod.images = <<>> THEN "None" ELSE prod.images[1]

\* the local `item` of add_to_cart
BuildItem(payload, prod, variant) ==
    [product_slug |-> payload.product_slug,
     sku |-> payload.sku,
     quantity |-> payload.quantity,
     price |-> variant.price,
     title |-> prod.title,
     image |-> FirstImageUrl(prod),
     selected_options |-> [Thickness |-> FormatThickness(variant.thickness_mm),
                           Size |-> variant.size,
                           Color |-> variant.color]]

\* MergeItems assigning the requested quantity instead of adding it
MergeItems_Overwrite(items, sku, quantity, newItem) ==
    LET hits == {i \in DOMAIN items : items[i].sku = sku}
    IN  IF hits # {}
        THEN [items EXCEPT ![FirstIndex(hits)].quantity = quantity]
        ELSE Append(items, newItem)

\* MergeItems without the scan for the sku
MergeItems_AlwaysAppend(items, sku, quantity, newItem) == Append(items, newItem)

\* MergeItems inserting a new item at the front
MergeItems_NewFirst(items, sku, quantity, newItem) ==
    LET hits == {i \in DOMAIN items : items[i].sku = sku}
    IN  IF hits # {}
        THEN [items EXCEPT ![FirstIndex(hits)].quantity = @ + quantity]
        ELSE <<newItem>> \o items

\* MergeItems refreshing the found item from the candidate
MergeItems_Refresh(items, sku, quantity, newItem) ==
    LET hits == {i \in DOMAIN items : items[i].sku = sku}
    IN  IF hits # {}
        THEN [items EXCEPT ![FirstIndex(hits)] =
                 [newItem EXCEPT !.quantity = @ + items[FirstIndex(hits)].quantity]]
        ELSE Append(items, newItem)

\* the loop over cart["items"] and the append that follows it
MergeItems(items, sku, quantity, newItem) ==
    LET hits == {i \in DOMAIN items : items[i].sku = sku}
    IN  IF hits # {}
        THEN [items EXCEPT ![FirstIndex(hits)].quantity = @ + quantity]
        ELSE Append(items, newItem)

\* CartWrites persisting the changed cart as a new record
CartWrites_AlwaysInsert(found, payload, newItem) ==
    << [op |-> "insert", id |-> 0,
        doc |-> [cart_id |-> payload.cart_id,
                 items |-> IF found # None
                           THEN MergeItems(found[1].items, payload.sku,
                                           payload.quantity, newItem)
                           ELSE <<newItem>>,
                 currency |-> "USD"]] >>

\* the store writes add_to_cart issues, given the cart it read
CartWrites(found, payload, newItem) ==
    IF found # None
    THEN << [op |-> "update", id |-> found[1]._id,
             doc |-> [found[1] EXCEPT
                        !.items = MergeItems(@, payload.sku, payload.quantity, newItem)]] >>
    ELSE << [op |-> "insert", id |-> 0,
             doc |-> [cart_id |-> payload.cart_id, items |-> <<newItem>>,
                      currency |-> "USD"]] >>

\* the early returns of add_to_cart
AddToCartStatus(up, coll, payload) ==
    IF ~up THEN 500
    ELSE LET p == FindProduct(coll, payload.product_slug)
         IN  IF p = None THEN 404
             ELSE IF FindVariant(p[1], payload.sku) = None THEN 404
             ELSE 200

\* ---------------------------------------------------- get_cart, pure parts
\* Cart(**cart): CartItem.quantity is Field(1, ge=1); a stored item that
\* fails it raises a ValidationError inside the handler.
CartItemValid(it) == it.quantity >= 1

CartValid(doc) == \A i \in DOMAIN doc.items : CartItemValid(doc.items[i])

\* GetCartResponse treating a missing cart as an error
GetCartResponse_NotFound(up, coll, cart_id) ==
    IF ~up THEN [status |-> 500, body |-> None]
    ELSE LET found == FindCart(coll, cart_id)
         IN  IF found = None \/ ~CartValid(found[1])
             THEN [status |-> 404, body |-> None]
             ELSE [status |-> 200,
                   body |-> Some([cart_id |-> found[1].cart_id, items |-> found[1].items,
                                  currency |-> found[1].currency])]

GetCartResponse(up, coll, cart_id) ==
    IF ~up THEN [status |-> 500, body |-> None]
    ELSE LET found == FindCart(coll, cart_id)
         IN  IF found = None
             THEN [status |-> 200,
                   body |-> Some([cart_id |-> cart_id, items |-> <<>>, currency |-> "USD"])]
             ELSE IF ~CartValid(found[1])
             THEN [status |-> 500, body |-> None]
             ELSE [status |-> 200,
                   body |-> Some([cart_id |-> found[1].cart_id, items |-> found[1].items,
                                  currency |-> found[1].currency])]

\* ------------------------------------------------------------------- Init
NoPayload == [cart_id |-> "", product_slug |-> "", sku |-> "", quantity |-> 0]

Init ==
    /\ dbUp \in BOOLEAN
    /\ product = <<>>
    /\ cart = <<>>
    /\ last = [op |-> "none", payload |-> NoPayload, status |-> 0, body |-> None]
    /\ log = <<>>
    /\ ncalls = 0
    /\ cartWrites = 0
    /\ pc = [p \in Procs |-> "idle"]
    /\ req = [p \in Procs |-> NoPayload]
    /\ item = [p \in Procs |-> None]
    /\ snap = [p \in Procs |-> None]
    /\ status = [p \in Procs |-> 0]
    /\ lastWriter = 0

\* ------------------------------------------- handlers, one request at a time
\* POST /seed
seed_product ==
    /\ ncalls < MaxCalls
    /\ ncalls' = ncalls + 1
    /\ IF ~dbUp
       THEN /\ last' = [op |-> "seed", payload |-> NoPayload, status |-> 500, body |-> None]
            /\ UNCHANGED product
       ELSE IF FindProduct(product, SeedSlug) # None
       THEN /\ last' = [op |-> "seed", payload |-> NoPayload, status |-> 200,
                        body |-> Some([status |-> "exists"])]
            /\ UNCHANGED product
       ELSE /\ product' = Append(product, SeedProduct)
            /\ last' = [op |-> "seed", payload |-> NoPayload, status |-> 200,
                        body |-> Some([status |-> "seeded"])]
    /\ UNCHANGED <<dbUp, cart, log, cartWrites, workerVars>>

\* GET /api/products/{slug}
get_product(slug) ==
    /\ ncalls < MaxCalls
    /\ ncalls' = ncalls + 1
    /\ LET doc == FindProduct(product, slug)
           pl == [NoPayload EXCEPT !.product_slug = slug]
       IN  last' = IF ~dbUp THEN [op |-> "product", payload |-> pl, status |-> 500, body |-> None]
                   ELSE IF doc = None
                   THEN [op |-> "product", payload |-> pl, status |-> 404, body |-> None]
                   ELSE [op |-> "product", payload |-> pl, status |-> 200, body |-> doc]
    /\ UNCHANGED <<dbUp, product, cart, log, cartWrites, workerVars>>

\* POST /api/cart/add
add_to_cart(cart_id, product_slug, sku, quantity) ==
    LET payload == [cart_id |-> cart_id, product_slug |-> product_slug,
                    sku |-> sku, quantity |-> quantity]
        st == AddToCartStatus(dbUp, product, payload)
    IN  /\ ncalls < MaxCalls
        /\ ncalls' = ncalls + 1
        /\ IF st # 200
           THEN /\ last' = [op |-> "add", payload |-> payload, status |-> st, body |-> None]
                /\ UNCHANGED <<cart, log, cartWrites>>
           ELSE LET prod == FindProduct(product, product_slug)[1]
                    variant == FindVariant(prod, sku)[1]
                    found == FindCart(cart, cart_id)
                    ws == CartWrites(found, payload, BuildItem(payload, prod, variant))
                IN  /\ cart' = ApplyWrites(cart, ws)
                    /\ cartWrites' = cartWrites + Len(ws)
                    /\ log' = Append(log, payload)
                    /\ last' = [op |-> "add", payload |-> payload, status |-> 200,
                                body |-> Some([status |-> "ok"])]
        /\ UNCHANGED <<dbUp, product, workerVars>>

\* GET /api/cart/{cart_id}
get_cart(cart_id) ==
    /\ ncalls < MaxCalls
    /\ ncalls' = ncalls + 1
    /\ LET r == GetCartResponse(dbUp, cart, cart_id)
       IN  last' = [op |-> "get", payload |-> [NoPayload EXCEPT !.cart_id = cart_id],
                    status |-> r.status, body |-> r.body]
    /\ UNCHANGED <<dbUp, product, cart, log, cartWrites, workerVars>>

\* The store is shared with whoever maintains the catalogue: the stored
\* product gets a new title and new variant prices, outside the handlers.
RepricedProduct(p) ==
    [p EXCEPT !.title = "Premium Rubber Gym Mat v2",
              !.variants = [i \in DOMAIN p.variants |->
                              [p.variants[i] EXCEPT !.price = @ + 500]]]

StoreEditsProduct ==
    /\ dbUp
    /\ product # <<>>
    /\ product[1].title = SeedProduct.title
    /\ product' = [product EXCEPT ![1] = RepricedProduct(@)]
    /\ UNCHANGED <<dbUp, cart, last, log, ncalls, cartWrites, workerVars>>

Next ==
    \/ seed_product
    \/ \E slug \in Slugs : get_product(slug)
    \/ \E c \in CartIds, slug \in Slugs, sku \in Skus, q \in Quantities :
          add_to_cart(c, slug, sku, q)
    \/ \E c \in CartIds : get_cart(c)
    \/ StoreEditsProduct

Spec == Init /\ [][Next]_vars

\* ------------------------------------ handlers, store operation by operation
\* add_to_cart up to the variant check: the product read and the early returns
c_add_resolve(p, cart_id, product_slug, sku, quantity) ==
    LET payload == [cart_id |-> cart_id, product_slug |-> product_slug,
                    sku |-> sku, quantity |-> quantity]
        st == AddToCartStatus(dbUp, product, payload)
    IN  /\ pc[p] = "idle"
        /\ ncalls < MaxWorkerCalls
        /\ ncalls' = ncalls + 1
        /\ req' = [req EXCEPT ![p] = payload]
        /\ IF st # 200
           THEN /\ pc' = [pc EXCEPT ![p] = "done"]
                /\ status' = [status EXCEPT ![p] = st]
                /\ UNCHANGED item
           ELSE LET prod == FindProduct(product, product_slug)[1]
                    variant == FindVariant(prod, sku)[1]
                IN  /\ pc' = [pc EXCEPT ![p] = "find_cart"]
                    /\ item' = [item EXCEPT ![p] = Some(BuildItem(payload, prod, variant))]
                    /\ UNCHANGED status
        /\ UNCHANGED <<dbUp, product, cart, last, log, cartWrites, snap, lastWriter>>

\* cart = db["cart"].find_one({"cart_id": payload.cart_id})
c_add_find_cart(p) ==
    /\ pc[p] = "find_cart"
    /\ snap' = [snap EXCEPT ![p] = FindCart(cart, req[p].cart_id)]
    /\ pc' = [pc EXCEPT ![p] = "write"]
    /\ UNCHANGED <<dbUp, product, cart, last, log, ncalls, cartWrites,
                   req, item, status, lastWriter>>

\* c_add_write working on the cart as stored now, not as read
c_add_write_reread(p) ==
    /\ pc[p] = "write"
    /\ LET ws == CartWrites(FindCart(cart, req[p].cart_id), req[p], item[p][1])
       IN  /\ cart' = ApplyWrites(cart, ws)
           /\ cartWrites' = cartWrites + Len(ws)
    /\ status' = [status EXCEPT ![p] = 200]
    /\ pc' = [pc EXCEPT ![p] = "done"]
    /\ lastWriter' = p
    /\ UNCHANGED <<dbUp, product, last, log, ncalls, req, item, snap>>

\* the branch on the local cart and its update_one / insert_one
c_add_write(p) ==
    /\ pc[p] = "write"
    /\ LET ws == CartWrites(snap[p], req[p], item[p][1])
       IN  /\ cart' = ApplyWrites(cart, ws)
           /\ cartWrites' = cartWrites + Len(ws)
    /\ status' = [status EXCEPT ![p] = 200]
    /\ pc' = [pc EXCEPT ![p] = "done"]
    /\ lastWriter' = p
    /\ UNCHANGED <<dbUp, product, last, log, ncalls, req, item, snap>>

\* the response leaves the worker, which is free for the next request
c_return(p) ==
    /\ pc[p] = "done"
    /\ pc' = [pc EXCEPT ![p] = "idle"]
    /\ req' = [req EXCEPT ![p] = NoPayload]
    /\ item' = [item EXCEPT ![p] = None]
    /\ snap' = [snap EXCEPT ![p] = None]
    /\ status' = [status EXCEPT ![p] = 0]
    /\ UNCHANGED <<dbUp, product, cart, last, log, ncalls, cartWrites, lastWriter>>

\* seed_product up to its find_one
c_seed_find(p) ==
    /\ pc[p] = "idle"
    /\ IF ~dbUp
       THEN /\ pc' = [pc EXCEPT ![p] = "done"]
            /\ status' = [status EXCEPT ![p] = 500]
       ELSE IF FindProduct(product, SeedSlug) # None
       THEN /\ pc' = [pc EXCEPT ![p] = "done"]
            /\ status' = [status EXCEPT ![p] = 200]
       ELSE /\ pc' = [pc EXCEPT ![p] = "seed_insert"]
            /\ UNCHANGED status
    /\ UNCHANGED <<dbUp, product, cart, last, log, ncalls, cartWrites, req, item, snap, lastWriter>>

\* create_document("product", product)
c_seed_insert(p) ==
    /\ pc[p] = "seed_insert"
    /\ product' = Append(product, SeedProduct)
    /\ pc' = [pc EXCEPT ![p] = "done"]
    /\ status' = [status EXCEPT ![p] = 200]
    /\ UNCHANGED <<dbUp, cart, last, log, ncalls, cartWrites, req, item, snap, lastWriter>>

NextC ==
    \/ \E p \in Procs, c \in WorkerCartIds, slug \in Slugs, sku \in Skus, q \in Quantities :
          c_add_resolve(p, c, slug, sku, q)
    \/ \E p \in Procs : c_add_find_cart(p)
    \/ \E p \in Procs : c_add_write(p)
    \/ \E p \in Procs : c_return(p)
    \/ \E p \in Procs : c_seed_find(p)
    \/ \E p \in Procs : c_seed_insert(p)

ConcSpec == Init /\ [][NextC]_vars

\* ------------------------------------------------- history of a behaviour
\* the SKUs that successful AddToCart calls added to cart c
AddedSkus(c) == {log[i].sku : i \in {j \in DOMAIN log : log[j].cart_id = c}}

RECURSIVE RequestedUpTo(_, _, _)
RequestedUpTo(n, c, s) ==
    IF n = 0 THEN 0
    ELSE RequestedUpTo(n - 1, c, s)
         + (IF log[n].cart_id = c /\ log[n].sku = s THEN log[n].quantity ELSE 0)

\* the sum of the quantities requested for SKU s of cart c
RequestedTotal(c, s) == RequestedUpTo(Len(log), c, s)

RECURSIVE FirstAddsUpTo(_, _)
FirstAddsUpTo(n, c) ==
    IF n = 0 THEN <<>>
    ELSE LET before == FirstAddsUpTo(n - 1, c)
         IN  IF log[n].cart_id = c /\ \A i \in DOMAIN before : before[i] # log[n].sku
             THEN Append(before, log[n].sku)
             ELSE before

\* the distinct SKUs added to cart c, in the order of their first addition
FirstAdds(c) == FirstAddsUpTo(Len(log), c)

SkusOf(items) == [i \in DOMAIN items |-> items[i].sku]

AllPositive(c) == \A i \in DOMAIN log : log[i].cart_id = c => log[i].quantity > 0

StoredCarts(c) == {i \in DOMAIN cart : cart[i].cart_id = c}

\* this step is a completed request of kind op
Acted(op) == ncalls' = ncalls + 1 /\ last'.op = op

\* ------------------------------------------------------------------ claims
\* C1: after successful AddToCart calls with positive quantities on one
\* cart_id, run one at a time, the stored cart holds for each SKU added an
\* item whose quantity is the sum of the quantities requested for that SKU.
C1_QuantityIsSumOfRequests ==
    \A c \in CartIds :
        AllPositive(c) =>
            \A s \in AddedSkus(c) :
                /\ StoredCarts(c) # {}
                /\ \A r \in StoredCarts(c) :
                       \E i \in DOMAIN cart[r].items :
                           /\ cart[r].items[i].sku = s
                           /\ cart[r].items[i].quantity = RequestedTotal(c, s)

\* two additions of different positive quantities of one SKU were merged
C1_Witness ==
    \E c \in CartIds : \E i, j \in DOMAIN log :
        /\ i < j
        /\ AllPositive(c)
        /\ log[i].cart_id = c /\ log[j].cart_id = c
        /\ log[i].sku = log[j].sku
        /\ log[i].quantity # log[j].quantity
        /\ \E r \in StoredCarts(c) : \E k \in DOMAIN cart[r].items :
               /\ cart[r].items[k].sku = log[i].sku
               /\ cart[r].items[k].quantity = log[i].quantity + log[j].quantity

\* C2: a cart holds at most one item per SKU, and as many items as distinct
\* SKUs were successfully added to it.
C2_OneItemPerSku ==
    \A r \in DOMAIN cart :
        /\ \A i, j \in DOMAIN cart[r].items :
               cart[r].items[i].sku = cart[r].items[j].sku => i = j
        /\ Len(cart[r].items) = Cardinality(AddedSkus(cart[r].cart_id))

\* a cart that took three additions, two of them of the same SKU
C2_Witness ==
    \E r \in DOMAIN cart :
        /\ Len(cart[r].items) = 2
        /\ Cardinality({i \in DOMAIN log : log[i].cart_id = cart[r].cart_id}) >= 3

\* C3: the item order of a cart is the order of first addition of its SKUs.
C3_OrderIsFirstAddition ==
    \A r \in DOMAIN cart : SkusOf(cart[r].items) = FirstAdds(cart[r].cart_id)

\* a cart with two items whose first SKU was added again after the second
C3_Witness ==
    \E r \in DOMAIN cart : \E i, j, k \in DOMAIN log :
        /\ i < j /\ j < k
        /\ Len(cart[r].items) = 2
        /\ log[i].cart_id = cart[r].cart_id
        /\ log[j].cart_id = cart[r].cart_id
        /\ log[k].cart_id = cart[r].cart_id
        /\ log[i].sku = cart[r].items[1].sku
        /\ log[j].sku = cart[r].items[2].sku
        /\ log[k].sku = cart[r].items[1].sku

\* what the request of this step asked for, read off the state before it
SlugStored(slug) == \E i \in DOMAIN product : product[i].slug = slug

SkuOffered(slug, sku) ==
    \E i \in DOMAIN product :
        /\ product[i].slug = slug
        /\ \A j \in 1 .. (i - 1) : product[j].slug # slug
        /\ \E v \in DOMAIN product[i].variants : product[i].variants[v].sku = sku

Unresolvable(payload) ==
    ~SlugStored(payload.product_slug) \/ ~SkuOffered(payload.product_slug, payload.sku)

\* C4 as stated: an AddToCart whose slug matches no stored product, or whose
\* product has no variant with the sku, answers 404 and writes nothing.
C4_UnresolvableIs404 ==
    [][ (Acted("add") /\ Unresolvable(last'.payload)) =>
          (last'.status = 404 /\ cart' = cart /\ product' = product) ]_vars

\* C4 amended: the same, when the store is available.
C4_UnresolvableIs404WhenStoreUp ==
    [][ (Acted("add") /\ dbUp /\ Unresolvable(last'.payload)) =>
          /\ last'.status = 404
          /\ cart' = cart
          /\ product' = product
          /\ cartWrites' = cartWrites
          /\ StoredCarts(last'.payload.cart_id) = {} =>
                 \A i \in DOMAIN cart' : cart'[i].cart_id # last'.payload.cart_id ]_vars

\* a known slug with an unknown sku was refused while the store held the
\* product, and the cart asked for does not exist
C4_Witness ==
    /\ dbUp
    /\ last.op = "add"
    /\ last.status = 404
    /\ SlugStored(last.payload.product_slug)
    /\ ~SkuOffered(last.payload.product_slug, last.payload.sku)
    /\ StoredCarts(last.payload.cart_id) = {}
    /\ cart # <<>>

\* C5: with the store available, GetCart of a cart_id with no stored cart
\* answers 200 with {cart_id, items: [], currency: "USD"} and leaves the cart
\* collection as it was; only AddToCart makes a cart.
C5_UnknownCartIsEmpty ==
    [][ /\ (Acted("get") /\ dbUp /\ StoredCarts(last'.payload.cart_id) = {}) =>
              /\ last'.status = 200
              /\ last'.body = Some([cart_id |-> last'.payload.cart_id,
                                    items |-> <<>>, currency |-> "USD"])
              /\ cart' = cart
        /\ Len(cart') > Len(cart) => Acted("add") ]_vars

\* GetCart answered for a cart_id that has no cart while another cart exists
C5_Witness ==
    /\ dbUp
    /\ last.op = "get"
    /\ last.status = 200
    /\ StoredCarts(last.payload.cart_id) = {}
    /\ cart # <<>>

\* C6: every item of every stored cart has quantity >= 1.
C6_QuantityAtLeastOne ==
    \A r \in DOMAIN cart : \A i \in DOMAIN cart[r].items : cart[r].items[i].quantity >= 1

\* C7: an AddToCart of an SKU already in the cart changes that item's
\* quantity to existing + requested and nothing else in the cart collection.
C7_MergeChangesQuantityOnly ==
    [][ \A r \in DOMAIN cart : \A i \in DOMAIN cart[r].items :
          ( /\ Acted("add")
            /\ last'.status = 200
            /\ cart[r].cart_id = last'.payload.cart_id
            /\ cart[r].items[i].sku = last'.payload.sku ) =>
              /\ DOMAIN cart' = DOMAIN cart
              /\ cart' = [cart EXCEPT ![r].items[i].quantity =
                                         @ + last'.payload.quantity]
              /\ product' = product ]_vars

\* an SKU was added again after the stored product had been repriced: the
\* item keeps the price and title of its first addition
C7_Witness ==
    \E r \in DOMAIN cart : \E i \in DOMAIN cart[r].items : \E v \in DOMAIN product[1].variants :
        /\ Len(cart[r].items) = 2
        /\ last.op = "add" /\ last.status = 200
        /\ last.payload.cart_id = cart[r].cart_id
        /\ last.payload.sku = cart[r].items[i].sku
        /\ RequestedTotal(cart[r].cart_id, cart[r].items[i].sku) = cart[r].items[i].quantity
        /\ Cardinality({k \in DOMAIN log : log[k].cart_id = cart[r].cart_id
                                            /\ log[k].sku = cart[r].items[i].sku}) >= 2
        /\ product[1].variants[v].sku = cart[r].items[i].sku
        /\ product[1].variants[v].price # cart[r].items[i].price
        /\ product[1].title # cart[r].items[i].title

\* C9: a successful AddToCart issues exactly one write on the cart
\* collection and none on the product collection: the insert of
\* {cart_id, items: [candidate], currency: "USD"} when the cart_id has no
\* cart, the replacement of the one existing record otherwise.
C9_OneWritePerAdd ==
    [][ (Acted("add") /\ last'.status = 200) =>
          LET pl == last'.payload
          IN  /\ cartWrites' = cartWrites + 1
              /\ product' = product
              /\ StoredCarts(pl.cart_id) = {} =>
                    /\ Len(cart') = Len(cart) + 1
                    /\ SubSeq(cart', 1, Len(cart)) = cart
                    /\ cart'[Len(cart')].cart_id = pl.cart_id
                    /\ cart'[Len(cart')].currency = "USD"
                    /\ Len(cart'[Len(cart')].items) = 1
                    /\ cart'[Len(cart')].items[1].sku = pl.sku
                    /\ cart'[Len(cart')].items[1].quantity = pl.quantity
                    /\ cart'[Len(cart')].items[1].product_slug = pl.product_slug
              /\ StoredCarts(pl.cart_id) # {} =>
                    /\ Len(cart') = Len(cart)
                    /\ \A r \in DOMAIN cart :
                           IF cart[r].cart_id = pl.cart_id
                           THEN /\ cart'[r]._id = cart[r]._id
                                /\ cart'[r].cart_id = pl.cart_id
                                /\ cart'[r].currency = cart[r].currency
                           ELSE cart'[r] = cart[r] ]_vars

\* both kinds of write have happened: two carts inserted, one of them updated
C9_Witness ==
    /\ Len(cart) = 2
    /\ cartWrites = 3
    /\ Len(log) = 3

\* the stored record a worker's local cart was read from
RecordOf(id) == {r \in DOMAIN cart : cart[r]._id = id}

\* C8: when two AddToCart calls on one existing cart have both answered 200
\* from the same read of the cart, the stored cart is the last writer's copy:
\* what was read, changed by the last writer's request alone.
C8_LastWriterWins ==
    \A p, q \in Procs :
        ( /\ p # q
          /\ pc[p] = "done" /\ status[p] = 200
          /\ pc[q] = "done" /\ status[q] = 200
          /\ snap[p] # None
          /\ snap[q] = snap[p]
          /\ lastWriter = p ) =>
            \A r \in RecordOf(snap[p][1]._id) :
                cart[r].items = MergeItems(snap[p][1].items, req[p].sku,
                                           req[p].quantity, item[p][1])

\* the quantity stored in a sequence of items for an SKU, 0 when it is absent
QuantityIn(items, sku) ==
    LET hits == {i \in DOMAIN items : items[i].sku = sku}
    IN  IF hits = {} THEN 0 ELSE items[FirstIndex(hits)].quantity

\* both calls answered 200 for positive quantities, and the stored cart lacks
\* one of them: a smaller quantity than the sum, or a new SKU missing
C8_Witness ==
    \E p, q \in Procs : \E r \in DOMAIN cart :
        /\ p # q
        /\ pc[p] = "done" /\ status[p] = 200
        /\ pc[q] = "done" /\ status[q] = 200
        /\ snap[p] # None /\ snap[q] = snap[p]
        /\ cart[r]._id = snap[p][1]._id
        /\ req[p].quantity > 0 /\ req[q].quantity > 0
        /\ \/ /\ req[p].sku = req[q].sku
              /\ QuantityIn(cart[r].items, req[p].sku)
                    < QuantityIn(snap[p][1].items, req[p].sku)
                      + req[p].quantity + req[q].quantity
           \/ /\ req[p].sku # req[q].sku
              /\ QuantityIn(snap[p][1].items, req[p].sku) = 0
              /\ QuantityIn(snap[p][1].items, req[q].sku) = 0
              /\ QuantityIn(cart[r].items, req[q].sku) = 0

\* C10: the cart collection holds at most one record per cart_id.
C10_OneRecordPerCartId ==
    \A c \in CartIds : Cardinality(StoredCarts(c)) <= 1

====
